---- MODULE Spec2Model ----
(***************************************************************************)
(* Model of src/agent.py: the QA agent that checks that a model artifact   *)
(* is present (pulling it otherwise), calls the generation endpoint under  *)
(* a tenacity retry policy and extracts the fenced payload of the answer.  *)
(*                                                                         *)
(* Strings are sequences of tokens.  A token is a chunk of characters:     *)
(* three backticks, "gherkin" (the language tag), "\n" (white space) and   *)
(* the payload letters "a", "b".  No token but the backticks holds a       *)
(* backtick and no token but "gherkin" holds a letter of the tag, so a     *)
(* left-to-right search for "```" or "```gherkin" in the characters finds  *)
(* exactly the matches a left-to-right search finds in the tokens.         *)
(***************************************************************************)
EXTENDS Integers, Sequences, FiniteSets, TLC

VARIABLES
    model,          \* self.model, the model identifier
    caller,         \* who called the availability checker: "run" or "test"
    pc,             \* position of the single thread of control
    checks,         \* one record per call of _ensure_model_available
    current_digest, \* current_digest of the pull in progress
    events,         \* statuses of the pull stream consumed by the pull in progress
    listCalls,      \* calls of ollama.list
    pullCalls,      \* calls of ollama.pull
    outcomes,       \* outcome of every call of ollama.generate, in order
    sleeps,         \* sleeps taken by the retry policy
    raised,         \* exception _generate_test_plan / the checker raised to run
    response_text,  \* response_text of the successful attempt
    generated_plan, \* value returned by the extraction
    stdout,         \* what print() wrote to the primary output
    diag,           \* log events emitted, in order
    exitStatus      \* process exit status; -1 while the process runs

vars == <<model, caller, pc, checks, current_digest, events, listCalls,
          pullCalls, outcomes, sleeps, raised, response_text, generated_plan,
          stdout, diag, exitStatus>>

(***************************************************************************)
(* Bounds of the model.                                                    *)
(***************************************************************************)
MaxLen == 7        \* longest raw text, in tokens, fed to the extraction
MaxEvents == 2     \* longest pull event stream
MaxChecks == 2     \* calls of the checker made in succession by the test

(***************************************************************************)
(* Text.                                                                   *)
(***************************************************************************)
\* The token "'''" is the three backticks (a TLA+ string holds no backtick).
Fence == <<"'''">>
GherkinFence == <<"'''", "gherkin">>
Whitespace == {"\n"}
Tokens == {"'''", "gherkin", "\n", "a", "b"}

Texts == UNION {[1..n -> Tokens] : n \in 0..MaxLen}

\* Python: sep in s
Contains(s, sep) ==
    \E i \in 1..(Len(s) - Len(sep) + 1) : SubSeq(s, i, i + Len(sep) - 1) = sep

\* Python: s.split(sep), the pieces between the non-overlapping occurrences
\* of sep found from the left; cur is where the current piece starts.
RECURSIVE SplitFrom(_, _, _, _)
SplitFrom(s, sep, i, cur) ==
    IF i > Len(s) - Len(sep) + 1
    THEN <<SubSeq(s, cur, Len(s))>>
    ELSE IF SubSeq(s, i, i + Len(sep) - 1) = sep
         THEN <<SubSeq(s, cur, i - 1)>>
              \o SplitFrom(s, sep, i + Len(sep), i + Len(sep))
         ELSE SplitFrom(s, sep, i + 1, cur)

split(s, sep) == SplitFrom(s, sep, 1, 1)

\* Python: s.lstrip(), s.rstrip(), s.strip()
RECURSIVE lstrip(_)
lstrip(s) ==
    IF s # <<>> /\ Head(s) \in Whitespace THEN lstrip(Tail(s)) ELSE s

RECURSIVE rstrip(_)
rstrip(s) ==
    IF s # <<>> /\ s[Len(s)] \in Whitespace
    THEN rstrip(SubSeq(s, 1, Len(s) - 1))
    ELSE s

strip(s) == rstrip(lstrip(s))

\* The value of an expression: a string, or the exception it raised.
Value(v) == [exc |-> "", value |-> v]
Raises(e) == [exc |-> e, value |-> <<>>]
Unset == [exc |-> "unset", value |-> <<>>]

\* Python: list[n], zero-based, IndexError past the end
Item(list, n) ==
    IF n < Len(list) THEN Value(list[n + 1]) ELSE Raises("IndexError")

\* Index of the piece taken after the opening delimiter: [1]
AfterOpening == 1
\* Index of the piece taken before the closing delimiter: [0]
BeforeClosing == 0

\* Faulty variant: the tagged branch without its strip().
GherkinBranchUntrimmed(t) ==
    LET after == Item(split(t, GherkinFence), AfterOpening)
    IN  IF after.exc # "" THEN after
        ELSE Item(split(after.value, Fence), BeforeClosing)

\* response_text.split("```gherkin")[1].split("```")[0].strip()
GherkinBranch(t) ==
    LET after == Item(split(t, GherkinFence), AfterOpening)
    IN  IF after.exc # "" THEN after
        ELSE LET body == Item(split(after.value, Fence), BeforeClosing)
             IN  IF body.exc # "" THEN body ELSE Value(strip(body.value))

\* response_text.split("```")[1].strip()
GenericBranch(t) ==
    LET body == Item(split(t, Fence), AfterOpening)
    IN  IF body.exc # "" THEN body ELSE Value(strip(body.value))

\* Faulty variant: the two tests in the other order.
extract_generic_first(t) ==
    IF Contains(t, Fence) THEN GenericBranch(t)
    ELSE IF Contains(t, GherkinFence) THEN GherkinBranch(t)
    ELSE Value(t)

\* The extraction at the end of _generate_test_plan.
extract(t) ==
    IF Contains(t, GherkinFence) THEN GherkinBranch(t)
    ELSE IF Contains(t, Fence) THEN GenericBranch(t)
    ELSE Value(t)

(***************************************************************************)
(* The inference service, as the agent sees it.                            *)
(***************************************************************************)
MODEL == "phi3:mini"
ModelIds == {MODEL, "phi3"}          \* values of OLLAMA_MODEL tried
Names == {"phi3:mini", "phi3"}       \* names a registry listing may hold
Digests == {"", "sha256:1", "sha256:2"}
StatusCodes == {500, 503}

\* A status of the pull stream; digest "" is a status without a digest.
Completed == {0, 1}
Totals == {1}
Statuses == [digest : Digests, completed : Completed, total : Totals]
\* the statuses that differ by their digest only
DigestStatuses == {st \in Statuses : st.completed = 0}

ResponseError(code) == [kind |-> "ResponseError", status_code |-> code]
ConnectionError == [kind |-> "ConnectionError", status_code |-> 0]
NoError == [kind |-> "", status_code |-> 0]
\* ollama.ResponseError, and an exception of another class
Exceptions == {ResponseError(c) : c \in StatusCodes} \cup {ConnectionError}

\* Raw texts the service answers with in a full run; <<>> is a response
\* without the "response" key.
Responses ==
    { <<>>,
      <<"a">>,
      <<"'''", "gherkin", "\n", "a", "\n", "'''">>,
      <<"'''", "\n", "b", "\n", "'''">>,
      <<"'''", "gherkin", "\n", "a">> }

(***************************************************************************)
(* Log events.                                                             *)
(***************************************************************************)
LogEvent(level, event) ==
    [level |-> level, event |-> event, model |-> "", digest |-> "",
     attempt |-> 0, wait |-> 0, status_code |-> 0]

LogModel(level, event, m) == [LogEvent(level, event) EXCEPT !.model = m]

(***************************************************************************)
(* The retry policy of _generate_test_plan (tenacity).                     *)
(***************************************************************************)
\* stop=stop_after_attempt(5)
stop_after_attempt == 5
\* wait=wait_fixed(3)
wait_fixed == 3
\* reraise=True
reraise == TRUE

\* The outcome of one attempt: the value returned or the exception raised.
Success(v) == [failed |-> FALSE, exc |-> NoError, result |-> v]
Failure(e) == [failed |-> TRUE, exc |-> e, result |-> <<>>]

\* Faulty variant: an empty payload is retried too (retry_if_result).
retry_if_empty(outcome) ==
    IF outcome.failed
    THEN outcome.exc.kind = "ResponseError"
    ELSE outcome.result = <<>>

\* Faulty variant: a predicate that asks for a retry whatever the outcome.
retry_any(outcome) == TRUE

\* Faulty variant: retry_if_exception_type(Exception).
retry_all_failures(outcome) == outcome.failed

\* retry=retry_if_exception_type(ollama.ResponseError)
retry(outcome) == outcome.failed /\ outcome.exc.kind = "ResponseError"

\* Faulty variant: the ceiling compared with > instead of >=.
stop_late(attempt_number) == attempt_number > stop_after_attempt

\* stop_after_attempt.__call__
stop(attempt_number) == attempt_number >= stop_after_attempt

\* What the call raises when the policy stops after a failed attempt.
RetryError(e) == [kind |-> "RetryError", status_code |-> 0]
Exhausted(e) == IF reraise THEN e ELSE RetryError(e)

\* Faulty variant: the wait grows with the attempt number.
before_sleep_backoff(attempt_number) ==
    [LogEvent("warning", "Retrying API call...")
        EXCEPT !.attempt = attempt_number,
               !.wait = wait_fixed * attempt_number]

\* before_sleep: log.warning("Retrying API call...", attempt=..., wait=...)
before_sleep(attempt_number) ==
    [LogEvent("warning", "Retrying API call...")
        EXCEPT !.attempt = attempt_number, !.wait = wait_fixed]

(***************************************************************************)
(* QAAgent.run: the except clauses and the code around the two calls.      *)
(***************************************************************************)
\* except ollama.ResponseError / except Exception
RunExcept(e) ==
    IF e.kind = "ResponseError"
    THEN [LogEvent("error", "Could not connect to the Ollama server.")
             EXCEPT !.status_code = e.status_code]
    ELSE LogEvent("exception", "An unexpected error occurred.")

\* Faulty variant: the handler logs and forgets sys.exit(1).
AbortStatusZero(e, log) ==
    /\ raised' = e
    /\ diag' = log \o <<RunExcept(e)>>
    /\ exitStatus' = 0
    /\ pc' = "exit"

\* An exception reaches run: the handler logs and calls sys.exit(1).
Abort(e, log) ==
    /\ raised' = e
    /\ diag' = log \o <<RunExcept(e)>>
    /\ exitStatus' = 1
    /\ pc' = "exit"

Banner(text) == LogEvent("info", text)

\* Faulty variant: names compared without their tag suffix.
Untagged(name) == IF name = "phi3:mini" THEN "phi3" ELSE name
IsLocalUntagged(m, local_models) ==
    \E name \in local_models : Untagged(name) = Untagged(m)

\* Faulty variant: the membership test inverted.
IsLocalInverted(m, local_models) == m \notin local_models

\* Membership test of the checker: self.model in local_models
IsLocal(m, local_models) == m \in local_models

\* The checker returns; run goes on to the generation.
CheckerReturns(log) ==
    /\ diag' = IF caller = "run"
               THEN log \o <<Banner("Generating Test Plan")>>
               ELSE log
    /\ pc' = IF caller = "run" THEN "generate" ELSE "idle"
    /\ UNCHANGED <<raised, exitStatus>>

\* Faulty variant: the except clause logs and does not re-raise.
CheckerSwallows(e, log) == CheckerReturns(log)

\* Faulty variant: the checker lists again after a failure.
CheckerRetries(e, log) ==
    /\ raised' = e
    /\ diag' = log
    /\ pc' = "list"
    /\ UNCHANGED exitStatus

\* The checker re-raises what it caught: raise
CheckerFails(e, log) ==
    IF caller = "run"
    THEN Abort(e, log)
    ELSE /\ raised' = e
         /\ diag' = log
         /\ pc' = "idle"
         /\ UNCHANGED exitStatus

CheckRecord(listing, pulled, result) ==
    [listing |-> listing, pulled |-> pulled, result |-> result]

SetResult(cs, result) == [cs EXCEPT ![Len(cs)].result = result]

(***************************************************************************)
(* Initial states.                                                         *)
(***************************************************************************)
InitCommon ==
    /\ checks = <<>>
    /\ current_digest = ""
    /\ events = <<>>
    /\ listCalls = 0
    /\ pullCalls = 0
    /\ outcomes = <<>>
    /\ sleeps = 0
    /\ raised = NoError
    /\ generated_plan = Unset
    /\ stdout = <<>>
    /\ diag = <<>>
    /\ exitStatus = -1

\* main(): QAAgent(model=MODEL, user_story=USER_STORY).run()
Init ==
    /\ InitCommon
    /\ model \in ModelIds
    /\ caller = "run"
    /\ pc = "start"
    /\ response_text = <<>>

(***************************************************************************)
(* Actions.                                                                *)
(***************************************************************************)
\* run, up to the call of the checker and of ollama.list
RunStart ==
    /\ pc = "start"
    /\ diag' = diag \o <<Banner("AI QA Agent Initializing"),
                         Banner("Objective Received"),
                         LogModel("info", "Model Specified", model)>>
    /\ pc' = "list"
    /\ UNCHANGED <<model, caller, checks, current_digest, events, listCalls,
                   pullCalls, outcomes, sleeps, raised, response_text,
                   generated_plan, stdout, exitStatus>>

\* ollama.list() returns: present, or the pull is started
ListReturn(local_models) ==
    /\ pc = "list"
    /\ listCalls' = listCalls + 1
    /\ IF IsLocal(model, local_models)
       THEN /\ checks' = Append(checks, CheckRecord(local_models, FALSE, "ok"))
            /\ CheckerReturns(
                 diag \o <<LogModel("info", "Model is available locally.", model)>>)
            /\ UNCHANGED <<pullCalls, current_digest, events>>
       ELSE /\ checks' = Append(checks,
                                CheckRecord(local_models, TRUE, "running"))
            /\ diag' = diag \o <<LogModel("warning",
                         "Model not found locally. Pulling from Ollama Hub...",
                         model)>>
            /\ current_digest' = ""
            /\ events' = <<>>
            /\ pullCalls' = pullCalls + 1
            /\ pc' = "pull"
            /\ UNCHANGED <<raised, exitStatus>>
    /\ UNCHANGED <<model, caller, outcomes, sleeps, response_text,
                   generated_plan, stdout>>

\* ollama.list() raises
ListRaise(e) ==
    /\ pc = "list"
    /\ listCalls' = listCalls + 1
    /\ checks' = Append(checks, CheckRecord({}, FALSE, "failed"))
    /\ CheckerFails(e,
         diag \o <<LogModel("exception", "Failed to pull model.", model)>>)
    /\ UNCHANGED <<model, caller, current_digest, events, pullCalls, outcomes,
                   sleeps, response_text, generated_plan, stdout>>

\* Faulty variant: the digest taken from every status, empty or not.
NextDigestUnguarded(digest, status) == status.digest

\* if status.get("digest"): current_digest = status["digest"]
NextDigest(digest, status) ==
    IF status.digest # "" THEN status.digest ELSE digest

\* one status of the pull stream
PullEvent(status) ==
    /\ pc = "pull"
    /\ Len(events) < MaxEvents
    /\ events' = Append(events, status)
    /\ current_digest' = NextDigest(current_digest, status)
    /\ UNCHANGED <<model, caller, pc, checks, listCalls, pullCalls, outcomes,
                   sleeps, raised, response_text, generated_plan, stdout,
                   diag, exitStatus>>

\* the pull stream ends
PullEnd ==
    /\ pc = "pull"
    /\ checks' = SetResult(checks, "ok")
    /\ CheckerReturns(
         diag \o <<[LogModel("info", "Successfully pulled model.", model)
                      EXCEPT !.digest = current_digest]>>)
    /\ UNCHANGED <<model, caller, current_digest, events, listCalls, pullCalls,
                   outcomes, sleeps, response_text, generated_plan, stdout>>

\* ollama.pull raises, at the call or in the stream
PullRaise(e) ==
    /\ pc = "pull"
    /\ checks' = SetResult(checks, "failed")
    /\ CheckerFails(e,
         diag \o <<LogModel("exception", "Failed to pull model.", model)>>)
    /\ UNCHANGED <<model, caller, current_digest, events, listCalls, pullCalls,
                   outcomes, sleeps, response_text, generated_plan, stdout>>

\* What tenacity does with the outcome of attempt number n, and run after it.
AfterAttempt(n, outcome, log) ==
    IF ~retry(outcome)
    THEN IF outcome.failed
         THEN /\ Abort(outcome.exc, log)
              /\ UNCHANGED stdout
         ELSE /\ diag' = log \o <<Banner("Mission Complete")>>
              /\ stdout' = Append(stdout, outcome.result)
              /\ exitStatus' = 0
              /\ pc' = "exit"
              /\ UNCHANGED raised
    ELSE IF stop(n)
         THEN /\ Abort(Exhausted(outcome.exc), log)
              /\ UNCHANGED stdout
         ELSE /\ diag' = log \o <<before_sleep(n)>>
              /\ pc' = "sleep"
              /\ UNCHANGED <<raised, stdout, exitStatus>>

Thinking == Banner("Agent is thinking...")

\* one attempt: ollama.generate returns and the payload is extracted
GenerateReturn(text) ==
    /\ pc = "generate"
    /\ outcomes' = Append(outcomes,
                          [failed |-> FALSE, exc |-> NoError, text |-> text])
    /\ response_text' = text
    /\ generated_plan' = extract(text)
    /\ AfterAttempt(Len(outcomes) + 1,
                    IF extract(text).exc = ""
                    THEN Success(extract(text).value)
                    ELSE Failure([kind |-> extract(text).exc,
                                  status_code |-> 0]),
                    diag \o <<Thinking,
                              Banner("Agent has finished generating the plan.")>>)
    /\ UNCHANGED <<model, caller, checks, current_digest, events, listCalls,
                   pullCalls, sleeps>>

\* one attempt: ollama.generate raises
GenerateRaise(e) ==
    /\ pc = "generate"
    /\ outcomes' = Append(outcomes,
                          [failed |-> TRUE, exc |-> e, text |-> <<>>])
    /\ AfterAttempt(Len(outcomes) + 1, Failure(e), diag \o <<Thinking>>)
    /\ UNCHANGED <<model, caller, checks, current_digest, events, listCalls,
                   pullCalls, sleeps, response_text, generated_plan>>

\* the wait between two attempts
Sleep ==
    /\ pc = "sleep"
    /\ sleeps' = sleeps + 1
    /\ pc' = "generate"
    /\ UNCHANGED <<model, caller, checks, current_digest, events, listCalls,
                   pullCalls, outcomes, raised, response_text, generated_plan,
                   stdout, diag, exitStatus>>

Next ==
    \/ RunStart
    \/ \E local_models \in SUBSET Names : ListReturn(local_models)
    \/ \E e \in Exceptions : ListRaise(e)
    \/ \E status \in Statuses : PullEvent(status)
    \/ PullEnd
    \/ \E e \in Exceptions : PullRaise(e)
    \/ \E text \in Responses : GenerateReturn(text)
    \/ \E e \in Exceptions : GenerateRaise(e)
    \/ Sleep

Spec == Init /\ [][Next]_vars

(***************************************************************************)
(* The checker called in succession by a test, outside run.                *)
(***************************************************************************)
InitChecker ==
    /\ InitCommon
    /\ model \in ModelIds
    /\ caller = "test"
    /\ pc = "idle"
    /\ response_text = <<>>

\* the test calls agent._ensure_model_available()
CallChecker ==
    /\ pc = "idle"
    /\ Len(checks) < MaxChecks
    /\ pc' = "list"
    /\ UNCHANGED <<model, caller, checks, current_digest, events, listCalls,
                   pullCalls, outcomes, sleeps, raised, response_text,
                   generated_plan, stdout, diag, exitStatus>>

NextChecker ==
    \/ CallChecker
    \/ \E local_models \in SUBSET Names : ListReturn(local_models)
    \/ \E e \in Exceptions : ListRaise(e)
    \/ \E status \in DigestStatuses : PullEvent(status)
    \/ PullEnd
    \/ \E e \in Exceptions : PullRaise(e)

SpecChecker == InitChecker /\ [][NextChecker]_vars

(***************************************************************************)
(* The extraction alone, on every raw text of at most MaxLen tokens.       *)
(***************************************************************************)
InitExtract ==
    /\ InitCommon
    /\ model = MODEL
    /\ caller = "test"
    /\ pc = "extract"
    /\ response_text \in Texts

\* lines 161-167 on response_text
Extract ==
    /\ pc = "extract"
    /\ generated_plan' = extract(response_text)
    /\ pc' = "extracted"
    /\ UNCHANGED <<model, caller, checks, current_digest, events, listCalls,
                   pullCalls, outcomes, sleeps, raised, response_text, stdout,
                   diag, exitStatus>>

NextExtract == Extract

SpecExtract == InitExtract /\ [][NextExtract]_vars

(***************************************************************************)
(* Properties of the retry policy (checked under Spec).                    *)
(***************************************************************************)
Attempts == Len(outcomes)

IsResponseError(o) == o.failed /\ o.exc.kind = "ResponseError"

AllResponseErrors == \A i \in DOMAIN outcomes : IsResponseError(outcomes[i])

\* the call of _generate_test_plan is over
InvokerDone == pc = "exit" /\ Attempts > 0

\* C1: when every call of generate raises ResponseError, generate is called
\* 5 times and never a 6th, the invoker goes on until the 5th, and what it
\* then raises to run is the error of the 5th attempt, unwrapped.
C1_RetryCeiling ==
    /\ Attempts <= 5
    /\ (AllResponseErrors /\ InvokerDone) =>
          Attempts = 5 /\ raised = outcomes[5].exc

\* Five ResponseErrors, the last two different, and the call is over.
C1_Witness ==
    /\ InvokerDone
    /\ AllResponseErrors
    /\ Attempts = 5
    /\ outcomes[4].exc # outcomes[5].exc

\* C2: an attempt k that succeeds is the last one (exactly k calls), it
\* comes after k-1 ResponseErrors with k <= 5, no error is raised, and the
\* value returned is the payload extracted from the response of attempt k.
C2_SuccessOnAttemptK ==
    \A k \in DOMAIN outcomes :
        ~outcomes[k].failed =>
            /\ k = Attempts
            /\ k <= 5
            /\ \A i \in 1..(k - 1) : IsResponseError(outcomes[i])
            /\ pc = "exit"
            /\ raised = NoError
            /\ generated_plan = extract(outcomes[k].text)
            /\ stdout = <<extract(outcomes[k].text).value>>

\* Four ResponseErrors, then the fenced answer on the fifth attempt.
C2_Witness ==
    /\ Attempts = 5
    /\ ~outcomes[5].failed
    /\ outcomes[5].text = <<"'''", "gherkin", "\n", "a", "\n", "'''">>
    /\ stdout = << <<"a">> >>
    /\ sleeps = 4

\* C3: an attempt j that raises an error other than ResponseError is the
\* last one (exactly j calls), no sleep follows it (only the j-1 sleeps
\* before it were taken) and that error is what the invoker raises.
C3_NoRetryOnOtherError ==
    \A j \in DOMAIN outcomes :
        (outcomes[j].failed /\ ~IsResponseError(outcomes[j])) =>
            /\ j = Attempts
            /\ pc = "exit"
            /\ sleeps = j - 1
            /\ raised = outcomes[j].exc

\* A connection error on the second attempt, after one ResponseError.
C3_Witness ==
    /\ Attempts = 2
    /\ IsResponseError(outcomes[1])
    /\ outcomes[2].exc = ConnectionError
    /\ pc = "exit"
    /\ sleeps = 1

(***************************************************************************)
(* Properties of the orchestrator (checked under Spec).                    *)
(***************************************************************************)
CheckerSucceeded == Len(checks) = 1 /\ checks[1].result = "ok"
CheckerFailed == Len(checks) >= 1 /\ checks[Len(checks)].result = "failed"

\* C4: generate is called, or about to be called, only after the checker
\* has returned successfully; a run whose checker failed never calls it.
C4_CheckBeforeGenerate ==
    /\ (Attempts > 0 \/ pc \in {"generate", "sleep"}) => CheckerSucceeded
    /\ CheckerFailed => Attempts = 0 /\ pc = "exit"

\* Generation has started after a pull that went through.
C4_Witness ==
    /\ Attempts > 0
    /\ CheckerSucceeded
    /\ checks[1].pulled
    /\ events # <<>>

NamesModel(entry) == entry.event = "Failed to pull model." /\ entry.model = model

\* C5: when the listing or the pull raises, whatever the class of the
\* exception, the listing was called once and the pull at most once (once
\* exactly when it had been started), the diagnostic naming the model was
\* logged, no generation is tried and the process ends with status 1.
C5_CheckerFailureIsFatal ==
    CheckerFailed =>
        /\ listCalls = 1
        /\ pullCalls = (IF checks[1].pulled THEN 1 ELSE 0)
        /\ \E i \in DOMAIN diag : NamesModel(diag[i])
        /\ raised # NoError
        /\ pc = "exit"
        /\ exitStatus = 1

\* The pull stream raises a ResponseError after one event.
C5_Witness ==
    /\ CheckerFailed
    /\ checks[1].pulled
    /\ Len(events) = 1
    /\ raised.kind = "ResponseError"
    /\ exitStatus = 1

\* the run went wrong: the checker failed or the last attempt failed
RunFailed == CheckerFailed \/ (Attempts > 0 /\ outcomes[Attempts].failed)

IsDiagnostic(entry) == entry.level \in {"error", "exception"}

\* C6: the process has a status only once it has ended; a run that went
\* wrong ends with status 1 and the handler's diagnostic as last log event;
\* a run that did not ends with status 0 and the extracted payload on the
\* primary output.  Status 0 never ends a run that went wrong.
C6_ExitContract ==
    /\ pc # "exit" => exitStatus = -1
    /\ pc = "exit" =>
          /\ exitStatus \in {0, 1}
          /\ RunFailed =>
                /\ exitStatus = 1
                /\ IsDiagnostic(diag[Len(diag)])
                /\ diag[Len(diag)] = RunExcept(raised)
          /\ ~RunFailed =>
                /\ exitStatus = 0
                /\ Attempts > 0
                /\ stdout = <<extract(outcomes[Attempts].text).value>>
                /\ \A i \in DOMAIN diag : ~IsDiagnostic(diag[i])

\* A connection error during generation, after a successful pull.
C6_Witness ==
    /\ pc = "exit"
    /\ exitStatus = 1
    /\ CheckerSucceeded
    /\ checks[1].pulled
    /\ Attempts = 1
    /\ raised = ConnectionError

(***************************************************************************)
(* Property of the checker called in succession (under SpecChecker).       *)
(***************************************************************************)
\* C7: a call of the checker whose listing holds the identifier succeeds
\* without a pull, be it the first call or a later one: the pulls made are
\* exactly those of the calls whose listing lacked the identifier.
C7_IdempotentAvailability ==
    /\ \A i \in DOMAIN checks :
          model \in checks[i].listing =>
              ~checks[i].pulled /\ checks[i].result = "ok"
    /\ pullCalls = Cardinality({i \in DOMAIN checks : checks[i].pulled})
    /\ (\A i \in DOMAIN checks : model \in checks[i].listing) => pullCalls = 0

\* Two calls in succession, the identifier listed both times.
C7_Witness ==
    /\ Len(checks) = 2
    /\ \A i \in DOMAIN checks : model \in checks[i].listing
    /\ listCalls = 2
    /\ pc = "idle"

(***************************************************************************)
(* Properties of the extraction (checked under SpecExtract).  The blocks   *)
(* of a text are found here by position, not by splitting.                 *)
(***************************************************************************)
\* least position >= from where sep occurs in t, 0 when there is none
Find(t, sep, from) ==
    LET hits == {i \in from..(Len(t) - Len(sep) + 1) :
                    SubSeq(t, i, i + Len(sep) - 1) = sep}
    IN  IF hits = {} THEN 0 ELSE CHOOSE i \in hits : \A j \in hits : i <= j

FencePositions(t) == {i \in DOMAIN t : t[i] = "'''"}

\* the language-tagged opening delimiter and the closing delimiter after it
TagAt(t) == Find(t, GherkinFence, 1)
CloseAt(t) == IF TagAt(t) = 0 THEN 0 ELSE Find(t, Fence, TagAt(t) + 2)
HasTaggedBlock(t) == TagAt(t) # 0 /\ CloseAt(t) # 0

\* the first pair of generic delimiters
OpenAt(t) == Find(t, Fence, 1)
PairAt(t) == IF OpenAt(t) = 0 THEN 0 ELSE Find(t, Fence, OpenAt(t) + 1)
HasGenericBlock(t) == OpenAt(t) # 0 /\ PairAt(t) # 0

\* an opening delimiter without a closing delimiter after it
Unterminated(t) ==
    IF TagAt(t) # 0
    THEN CloseAt(t) = 0
    ELSE Cardinality(FencePositions(t)) % 2 = 1

WellFormed(t) == ~Unterminated(t)

\* C8: on a text with an unterminated opening fence the extraction does
\* not raise and returns the raw text.
C8_UnterminatedReturnsRaw ==
    (pc = "extracted" /\ Unterminated(response_text)) =>
        generated_plan = Value(response_text)

\* The blocks of a text whose fences pair up from the left: the i-th block
\* lies between fence 2i-1 and fence 2i, its language tag set aside.
RECURSIVE Sorted(_)
Sorted(S) ==
    IF S = {} THEN <<>>
    ELSE LET m == CHOOSE i \in S : \A j \in S : i <= j
         IN  <<m>> \o Sorted(S \ {m})

BlockCount(t) == Cardinality(FencePositions(t)) \div 2


\* the language tag is only met right after a fence that opens a block
TagsOpenBlocks(t) ==
    \A i \in FencePositions(t) :
        (i < Len(t) /\ t[i + 1] = "gherkin") =>
            Cardinality({j \in FencePositions(t) : j <= i}) % 2 = 1

\* the body of the i-th block, its language tag set aside
Tagged(t, i) ==
    LET f == Sorted(FencePositions(t))
    IN  f[2 * i - 1] + 1 < f[2 * i] /\ t[f[2 * i - 1] + 1] = "gherkin"

Body(t, i) ==
    LET f == Sorted(FencePositions(t))
    IN  SubSeq(t, IF Tagged(t, i) THEN f[2 * i - 1] + 2 ELSE f[2 * i - 1] + 1,
               f[2 * i] - 1)

\* C9: on a text with two or more fenced blocks, tagged or not, the
\* contents of the first block are returned.
C9_FirstBlockOnly ==
    (/\ pc = "extracted"
     /\ Cardinality(FencePositions(response_text)) % 2 = 0
     /\ TagsOpenBlocks(response_text)
     /\ BlockCount(response_text) >= 2) =>
        generated_plan = Value(strip(Body(response_text, 1)))

\* the first language-tagged block when there is one, else the first block
Preferred(t) ==
    LET tagged == {i \in 1..BlockCount(t) : Tagged(t, i)}
    IN  IF tagged = {} THEN 1
        ELSE CHOOSE i \in tagged : \A j \in tagged : i <= j

\* C9, amended: on a text with two or more fenced blocks the contents of
\* one block are returned and the other blocks are discarded: the first
\* language-tagged block when there is one, otherwise the first block.
C9_FirstTaggedElseFirst ==
    (/\ pc = "extracted"
     /\ Cardinality(FencePositions(response_text)) % 2 = 0
     /\ TagsOpenBlocks(response_text)
     /\ BlockCount(response_text) >= 2) =>
        generated_plan =
            Value(strip(Body(response_text, Preferred(response_text))))

\* A generic block, then a tagged block: the second one is returned.
C9_Witness ==
    /\ pc = "extracted"
    /\ response_text = <<"'''", "a", "'''", "'''", "gherkin", "b", "'''">>
    /\ generated_plan = Value(<<"b">>)

\* what the three rules, taken in order, select in a well-formed text
Selected(t) ==
    IF HasTaggedBlock(t)
    THEN strip(SubSeq(t, TagAt(t) + 2, CloseAt(t) - 1))
    ELSE IF HasGenericBlock(t)
         THEN strip(SubSeq(t, OpenAt(t) + 1, PairAt(t) - 1))
         ELSE t

\* C10: the extraction never raises and returns a string; on a well-formed
\* text it returns the trimmed text between the tagged opening delimiter
\* and the next closing delimiter when there is a tagged block, otherwise
\* the trimmed text between the first pair of delimiters when there is a
\* generic block, otherwise the raw text unchanged.
C10_RuleOrder ==
    pc = "extracted" =>
        /\ generated_plan.exc = ""
        /\ generated_plan.value \in Seq(Tokens)
        /\ WellFormed(response_text) =>
              generated_plan.value = Selected(response_text)

\* Prose, then a tagged block whose body is surrounded by white space.
C10_Witness ==
    /\ pc = "extracted"
    /\ response_text = <<"a", "'''", "gherkin", "\n", "b", "'''">>
    /\ WellFormed(response_text)
    /\ generated_plan = Value(<<"b">>)

(***************************************************************************)
(* End-to-end properties of the run (checked under Spec).                  *)
(***************************************************************************)
\* the model was listed, so the checker returned without a pull
ModelListed == Len(checks) = 1 /\ model \in checks[1].listing

\* a log entry that tells the exhaustion of the retries from another
\* failure: it carries the number of attempts made
IdentifiesExhaustion(entry) == entry.attempt > 0

\* C11: with the model available and every call of generate raising
\* ResponseError, the run makes exactly 5 attempts, prints nothing, ends
\* with status 1, and its last log entry is a diagnostic that identifies
\* the exhaustion of the retries.
C11_FatalEndToEnd ==
    (ModelListed /\ AllResponseErrors /\ InvokerDone) =>
        /\ Attempts = 5
        /\ stdout = <<>>
        /\ exitStatus = 1
        /\ IsDiagnostic(diag[Len(diag)])
        /\ IdentifiesExhaustion(diag[Len(diag)])

\* a text that is one fenced Gherkin block and nothing else
SingleGherkinBlock(t) ==
    /\ Len(t) >= 3
    /\ SubSeq(t, 1, 2) = GherkinFence
    /\ t[Len(t)] = "'''"
    /\ \A i \in 3..(Len(t) - 1) : t[i] # "'''"

BlockContents(t) == SubSeq(t, 3, Len(t) - 1)

\* C12: with the model listed and a first answer that is a single fenced
\* Gherkin block, the run pulls nothing, calls generate once, prints
\* exactly the trimmed contents of the block and ends with status 0.
C12_SuccessEndToEnd ==
    (/\ ModelListed
     /\ Attempts >= 1
     /\ ~outcomes[1].failed
     /\ SingleGherkinBlock(outcomes[1].text)) =>
        /\ pullCalls = 0
        /\ Attempts = 1
        /\ sleeps = 0
        /\ stdout = <<strip(BlockContents(outcomes[1].text))>>
        /\ pc = "exit"
        /\ exitStatus = 0

\* The block "```gherkin\na\n```" answered at once: "a" is printed.
C12_Witness ==
    /\ ModelListed
    /\ Attempts = 1
    /\ ~outcomes[1].failed
    /\ SingleGherkinBlock(outcomes[1].text)
    /\ stdout = << <<"a">> >>
    /\ exitStatus = 0

(***************************************************************************)
(* Properties of the pull (checked under Spec).                            *)
(***************************************************************************)
\* C13: in the statuses the checker has consumed during a pull, once the
\* digest and the total stay the same from one status to the next, the
\* completed value does not decrease: the progress never moves backwards.
C13_PullMonotonic ==
    \A i \in 1..(Len(events) - 1) :
        (/\ events[i].digest # ""
         /\ events[i + 1].digest = events[i].digest
         /\ events[i + 1].total = events[i].total) =>
            events[i + 1].completed >= events[i].completed

(***************************************************************************)
(* Properties of the retry notices (checked under Spec).                   *)
(***************************************************************************)
IsNotice(entry) == entry.event = "Retrying API call..."
Notices == SelectSeq(diag, IsNotice)

\* positions in the log of the notices and of the starts of the attempts
NoticeAt == Sorted({i \in DOMAIN diag : IsNotice(diag[i])})
AttemptAt == Sorted({i \in DOMAIN diag : diag[i] = Thinking})

\* C14: a call that has made n attempts has logged n-1 notices once it is
\* over or about to try again, and n while it sleeps after the n-th; the
\* notice comes before its sleep; the j-th notice lies in the log between
\* attempts j and j+1 and carries attempt j and the wait 3, whatever j.
\* Nothing is logged or slept after the last attempt of a call.
C14_RetryNotices ==
    /\ Len(AttemptAt) = Attempts
    /\ pc = "sleep" => Len(Notices) = Attempts /\ sleeps = Attempts - 1
    /\ pc = "generate" => Len(Notices) = Attempts /\ sleeps = Attempts
    /\ (pc = "exit" /\ Attempts > 0) =>
          Len(Notices) = Attempts - 1 /\ sleeps = Attempts - 1
    /\ Attempts = 0 => Len(Notices) = 0 /\ sleeps = 0
    /\ Len(Notices) <= 4
    /\ \A j \in DOMAIN Notices :
          /\ Notices[j].level = "warning"
          /\ Notices[j].attempt = j
          /\ Notices[j].wait = 3
          /\ IsResponseError(outcomes[j])
          /\ AttemptAt[j] < NoticeAt[j]
          /\ j < Attempts => NoticeAt[j] < AttemptAt[j + 1]

\* Two ResponseErrors, then an answer: two notices, two sleeps.
C14_Witness ==
    /\ pc = "exit"
    /\ Attempts = 3
    /\ ~outcomes[3].failed
    /\ Len(Notices) = 2
    /\ sleeps = 2

(***************************************************************************)
(* Properties of the checker within a run (checked under Spec).            *)
(***************************************************************************)
\* the listing of the i-th check returned (it did not raise)
Listed(i) == checks[i].pulled \/ checks[i].result = "ok"

\* C15: a check whose listing returned starts a pull if and only if the
\* identifier is not, as the very same string, among the names listed: an
\* empty listing leads to a pull, and so does a listing that holds the
\* model under another form only.  No check starts more than one pull.
C15_ExactMembership ==
    /\ \A i \in DOMAIN checks :
          Listed(i) => (checks[i].pulled <=> model \notin checks[i].listing)
    /\ \A i \in DOMAIN checks : ~Listed(i) => ~checks[i].pulled
    /\ pullCalls = Cardinality({i \in DOMAIN checks : checks[i].pulled})
    /\ pullCalls <= Len(checks)

\* "phi3:mini" is asked for and only "phi3" is listed: a pull is started.
C15_Witness ==
    /\ model = "phi3:mini"
    /\ Len(checks) = 1
    /\ checks[1].listing = {"phi3"}
    /\ checks[1].pulled
    /\ pullCalls = 1

\* digest of the last status that carried one, "" when none did
LastDigest(stream) ==
    LET with == {i \in DOMAIN stream : stream[i].digest # ""}
    IN  IF with = {} THEN ""
        ELSE stream[CHOOSE i \in with : \A j \in with : j <= i].digest

PullReports ==
    SelectSeq(diag, LAMBDA entry : entry.event = "Successfully pulled model.")

\* C16: a check that started a pull stays in the stream until it ends or
\* raises; it succeeds exactly when the stream ends, whatever statuses it
\* carried (none at all included), after a single listing; the digest it
\* then reports is the one of the last status that carried a digest, ""
\* when none did.  A pull that raised reports nothing.
C16_PullCompletion ==
    \A i \in DOMAIN checks :
        checks[i].pulled =>
            /\ i = 1
            /\ listCalls = 1
            /\ checks[i].result = "running" <=> pc = "pull"
            /\ checks[i].result = "running" => current_digest = LastDigest(events)
            /\ checks[i].result = "ok" =>
                  /\ Len(PullReports) = 1
                  /\ PullReports[1].model = model
                  /\ PullReports[1].digest = LastDigest(events)
            /\ checks[i].result = "failed" =>
                  /\ PullReports = <<>>
                  /\ raised # NoError
                  /\ pc = "exit"

\* A status with a digest, then one without: the first digest is reported.
C16_Witness ==
    /\ Len(checks) = 1
    /\ checks[1].pulled
    /\ checks[1].result = "ok"
    /\ Len(events) = 2
    /\ events[1].digest = "sha256:1"
    /\ events[2].digest = ""
    /\ PullReports[1].digest = "sha256:1"

\* A pull whose stream carried no status at all succeeds.
C16_EmptyStream ==
    /\ Len(checks) = 1
    /\ checks[1].pulled
    /\ checks[1].result = "ok"
    /\ events = <<>>

(***************************************************************************)
(* Properties of the extraction within a run (checked under Spec).         *)
(***************************************************************************)
\* the attempts whose network call returned
Returned == {k \in DOMAIN outcomes : ~outcomes[k].failed}

\* C17: the extraction has run if and only if a network call returned; at
\* most one call returns and the extraction runs on its response alone;
\* whatever it yields, an empty payload included, no attempt and no sleep
\* follow it: that attempt is the last and the call is over.
C17_ExtractionOutsideRetry ==
    /\ Cardinality(Returned) <= 1
    /\ generated_plan = Unset <=> Returned = {}
    /\ generated_plan # Unset =>
          /\ Returned = {Attempts}
          /\ response_text = outcomes[Attempts].text
          /\ sleeps = Attempts - 1
          /\ pc = "exit"

\* An answer without text on the second attempt: the empty payload is
\* returned and generate is not called again.
C17_Witness ==
    /\ Attempts = 2
    /\ Returned = {2}
    /\ outcomes[2].text = <<>>
    /\ generated_plan = Value(<<>>)
    /\ pc = "exit"

\* C18: the primary output holds at most one payload; nothing is written
\* while the run goes on; once it has ended, a payload has been written if
\* and only if the status is 0, and it is the payload extracted from the
\* answer of the last attempt; a run that failed has written nothing.
C18_PayloadOnlyOnSuccess ==
    /\ Len(stdout) <= 1
    /\ pc # "exit" => stdout = <<>>
    /\ pc = "exit" => (Len(stdout) = 1 <=> exitStatus = 0)
    /\ RunFailed => stdout = <<>>
    /\ stdout # <<>> =>
          /\ ~outcomes[Attempts].failed
          /\ stdout[1] = generated_plan.value

\* A pull, then five ResponseErrors: status 1 and an empty output.
C18_Witness ==
    /\ pc = "exit"
    /\ exitStatus = 1
    /\ Len(checks) = 1
    /\ checks[1].pulled
    /\ Attempts = 5
    /\ stdout = <<>>

(***************************************************************************)
(* Termination.  Every external call returns or raises and the pull stream *)
(* is finite, so a run that can take a step eventually takes one.          *)
(***************************************************************************)
SpecFair == Init /\ [][Next]_vars /\ WF_vars(Next)

WithinBudget ==
    /\ listCalls <= 1
    /\ pullCalls <= 1
    /\ Attempts <= 5
    /\ sleeps <= 4

\* C19: every run ends, whatever succeeds or fails on the way, and when it
\* has ended it has listed the registry exactly once; at no time has it
\* called pull more than once, generate more than 5 times or slept more
\* than 4 times.
C19_Terminates ==
    /\ []WithinBudget
    /\ <>(pc = "exit" /\ listCalls = 1 /\ exitStatus \in {0, 1})

\* The longest run: a full pull stream, five attempts, four sleeps.
C19_Witness ==
    /\ pc = "exit"
    /\ listCalls = 1
    /\ pullCalls = 1
    /\ Len(events) = MaxEvents
    /\ Attempts = 5
    /\ sleeps = 4

====
